---------------------------- MODULE Spec2Model ----------------------------
(***************************************************************************)
(* Model of the conversion-and-delivery pipeline of src/bot.py:            *)
(* handle_video / handle_document, run_with_timeout, convert_video_to_gif, *)
(* send_gif_with_fallbacks, safe_cleanup, handle_error and error_handler.  *)
(*                                                                         *)
(* One request is handled at a time; requests follow each other on the    *)
(* same filesystem.  Every await of the source is one step whose outcome   *)
(* (return or raise) is chosen nondeterministically; the code between two  *)
(* awaits belongs to the step that ends at the second one.                 *)
(***************************************************************************)
EXTENDS Integers, Sequences, FiniteSets, TLC

(* ------------------------------ constants ------------------------------ *)

\* src/bot.py:25-29
MAX_VIDEO_SIZE_MB == 20
MAX_DURATION_SECONDS == 10
MAX_WIDTH_PX == 480
FPS == 15
TIMEOUT_SECONDS == 60
\* src/bot.py:153, the ceiling in min(fps, 25)
FPS_CEILING == 25
\* src/bot.py:320 (and 409), the literal in "gif_size_mb > 50"
MAX_GIF_SIZE_MB == 50
\* bytes per MB, the divisor 1024 * 1024 of src/bot.py:134, 295, 319
MB == 1024 * 1024

\* Number of requests handled one after the other in a behaviour.
MaxRequests == 2

(* ------------------------- inputs of a request ------------------------- *)

Handlers == {"handle_video", "handle_document"}
\* document.mime_type: absent, a video type, another type
MimeTypes == {"None", "video/mp4", "image/png"}
\* declared sizes in bytes: well under, exactly at and over the limit
DeclaredSizes == {5 * MB, MAX_VIDEO_SIZE_MB * MB, MAX_VIDEO_SIZE_MB * MB + 1}
\* sizes of the file actually written by the download
ActualSizes == {5 * MB, 25 * MB}
\* native durations (seconds) and frame sizes <<width, height>> of a clip
NativeDurations == {3, MAX_DURATION_SECONDS, 15}
NativeSizes == {<<320, 240>>, <<MAX_WIDTH_PX, 360>>, <<640, 480>>}
\* size in bytes of the GIF the encoder writes (0: an empty file)
GifSizes == {0, 2 * MB, MAX_GIF_SIZE_MB * MB, MAX_GIF_SIZE_MB * MB + 1}
\* seconds a download or a conversion takes when nothing interrupts it
DownloadDurations == {TIMEOUT_SECONDS - 1, TIMEOUT_SECONDS + 30}
ConvertDurations == {TIMEOUT_SECONDS - 1, TIMEOUT_SECONDS + 30}

(* ----------------------- texts shown to the user ----------------------- *)

T_Processing == "Processing your video to GIF..."
T_Instruction == "Please send a video file to convert to GIF."
\* f"Video file is too large ({size:.1f}MB). Maximum size is 20MB."
T_TooLargeIn == "Video file is too large. Maximum size is 20MB."
T_TimedOut == "Processing took too long and timed out."
T_CouldNotConvert == "Sorry, I couldn't convert your video to GIF."
T_OutTooLarge == "The resulting GIF is too large."
T_GifCreated == "GIF created! Sending to you now..."
T_FirstFailed == "First sending method failed. Trying another..."
T_AnimFailed == "Animation sending failed. Trying as document..."
T_CouldNotSendApi == "Sorry, I couldn't send the GIF. Issue with Telegram's API."
T_CouldNotSendUnexpected == "Sorry, I couldn't send the GIF due to an unexpected error."
T_WentWrong == "Sorry, something went wrong. Please try again later."
\* str(e) of an exception raised inside a collaborator (decoder, encoder,
\* transport, filesystem): text the code did not write
T_Internal == "<text of an internal error>"
\* f"Operation timed out after {timeout} seconds", src/bot.py:124
T_OperationTimedOut == "Operation timed out after 60 seconds"

GenericTexts ==
    {T_Processing, T_Instruction, T_TimedOut, T_CouldNotConvert, T_OutTooLarge,
     T_GifCreated, T_FirstFailed, T_AnimFailed, T_CouldNotSendApi,
     T_CouldNotSendUnexpected, T_WentWrong}

(* ------------------------------ exceptions ----------------------------- *)

\* The classes the handlers' except clauses tell apart (src/bot.py:338-348):
\* ValueError (and its subclasses), TimeoutError, any other Exception.
ExcKinds == {"ValueError", "TimeoutError", "Exception"}
NoExc == [kind |-> "none", msg |-> ""]
Exc(k, m) == [kind |-> k, msg |-> m]
\* what the decoder and the encoder may raise: any class, with its own text
InternalErrors == {Exc(k, T_Internal) : k \in ExcKinds}

(* ------------------------------ filesystem ----------------------------- *)

\* A path: a temporary file, a temporary directory, or a file in one.
None == [root |-> "None", id |-> 0, name |-> ""]
TmpFile(n) == [root |-> "tmpfile", id |-> n, name |-> ""]
TmpDir(n) == [root |-> "tmpdir", id |-> n, name |-> ""]
\* os.path.join(dir, name), src/bot.py:129, 130, 237
Join(dir, nm) == [root |-> dir.root, id |-> dir.id, name |-> nm]
\* os.path.dirname(path), src/bot.py:237
Dirname(path) == [root |-> path.root, id |-> path.id, name |-> ""]
isfile(fsys, path) == path \in fsys /\ (path.root = "tmpfile" \/ path.name # "")
isdir(fsys, path) == path \in fsys /\ path.root = "tmpdir" /\ path.name = ""
Under(q, dir) == q.root = dir.root /\ q.id = dir.id

\* a fixed name instead of an unused one
FreshId_Fixed(fsys, root) == 1

\* tempfile picks a name that does not exist yet
FreshId(fsys, root) ==
    CHOOSE n \in 1..(Cardinality(fsys) + 1) :
        /\ \A p \in fsys : ~(p.root = root /\ p.id = n)
        /\ \A k \in 1..(n - 1) : \E p \in fsys : p.root = root /\ p.id = k

VARIABLES
    pc,              \* position of the handler
    served,          \* requests received so far
    handler,         \* which handler the dispatcher called
    mime,            \* document.mime_type
    declared,        \* file_size reported by the transport
    actual,          \* os.path.getsize(video_path) after the download
    now,             \* the clock, seconds since the request arrived
    deadline,        \* when the armed asyncio.wait_for timer fires (-1: none)
    start_time,      \* local start_time
    download_time,   \* local download_time (-1: not set)
    conversion_time, \* local conversion_time (-1: not set)
    fs,              \* the paths that exist
    video_path,      \* local video_path
    temp_dir,        \* local temp_dir of the handler
    gif_path,        \* local gif_path of the handler
    conv_dir,        \* temp_dir of convert_video_to_gif
    clip,            \* the clip decoded from the input, as it was read
    gif,             \* the GIF written: its size and what it shows
    status,          \* text of processing_message ("" before it is posted)
    deleted,         \* processing_message was deleted
    log,             \* calls made for this request, in order
    exc,             \* exception being handled
    success,         \* local success
    result,          \* how the request ended
    delFailed,       \* a deletion of safe_cleanup raised in this request
    diskFaults,      \* whether unlink / rmtree may raise in this run
    open_clips,      \* clips opened by the conversion and not closed
    reqs,            \* the handlers running side by side (concurrent runs)
    cl               \* what repeated calls of safe_cleanup did (cleanup runs)

vars == <<pc, served, handler, mime, declared, actual, now, deadline,
          start_time, download_time, conversion_time, fs, video_path,
          temp_dir, gif_path, conv_dir, clip, gif, status, deleted, log, exc,
          success, result, delFailed, diskFaults, open_clips, reqs, cl>>

\* the variables of the runs with several handlers and of the cleanup runs
otherVars == <<reqs, cl>>

reqVars == <<handler, mime, declared>>
timeVars == <<now, deadline, start_time, download_time, conversion_time>>
pathVars == <<video_path, temp_dir, gif_path, conv_dir>>
mediaVars == <<actual, clip, gif>>

NoClip == [start |-> 0, duration |-> 0, width |-> 0, height |-> 0]
NoGif == [size |-> -1, start |-> 0, duration |-> 0, width |-> 0, height |-> 0,
          fps |-> 0]

Call(op, arg, res) == [op |-> op, arg |-> arg, res |-> res]

\* handlers that run side by side in a concurrent run
NumConcurrent == 2
Requests == 1..NumConcurrent
\* a handler of a concurrent run before its message arrives: its position
\* and its locals video_path, temp_dir, gif_path (src/bot.py:285-288)
IdleRequest ==
    [pc |-> "idle", video_path |-> None, temp_dir |-> None, gif_path |-> None]
\* no call of safe_cleanup made yet in a cleanup run
NoCleanup == [calls |-> 0, after |-> {}, failed |-> {}, exc |-> NoExc]
Logged(op, arg, res) == log' = Append(log, Call(op, arg, res))

Init ==
    /\ pc = "idle"
    /\ served = 0
    /\ handler = "none"
    /\ mime = "None"
    /\ declared = 0
    /\ actual = 0
    /\ now = 0
    /\ deadline = -1
    /\ start_time = 0
    /\ download_time = -1
    /\ conversion_time = -1
    /\ fs = {}
    /\ video_path = None
    /\ temp_dir = None
    /\ gif_path = None
    /\ conv_dir = None
    /\ clip = NoClip
    /\ gif = NoGif
    /\ status = ""
    /\ deleted = FALSE
    /\ log = <<>>
    /\ exc = NoExc
    /\ success = FALSE
    /\ result = "none"
    /\ delFailed = FALSE
    /\ diskFaults = FALSE
    /\ open_clips = {}
    /\ reqs = [r \in Requests |-> IdleRequest]
    /\ cl = NoCleanup

(* ----------------------------- safe_cleanup ---------------------------- *)

\* One iteration of the loop of safe_cleanup (src/bot.py:109-117).  failing
\* holds the paths whose unlink / rmtree raises; the exception is logged and
\* the path is left in place.
CleanupOne(fsys, path, failing) ==
    IF path # None /\ path \in fsys
    THEN IF path \in failing THEN fsys
         ELSE IF isfile(fsys, path) THEN fsys \ {path}
         ELSE IF isdir(fsys, path) THEN {q \in fsys : ~Under(q, path)}
         ELSE fsys
    ELSE fsys

\* What the try of that iteration raises (src/bot.py:110-115): the error of
\* a failing unlink / rmtree.
DeleteError(fsys, path, failing) ==
    IF path # None /\ path \in fsys /\ path \in failing
    THEN Exc("Exception", T_Internal)
    ELSE NoExc

\* an except clause that logs and raises again
Caught_Reraised(e) == e

\* except Exception as e: logger.warning(...)  (src/bot.py:116-117): what
\* is still raised after the clause
Caught(e) == NoExc

RECURSIVE safe_cleanup(_, _, _)
safe_cleanup(fsys, file_paths, failing) ==
    IF file_paths = <<>> THEN fsys
    ELSE safe_cleanup(CleanupOne(fsys, Head(file_paths), failing),
                      Tail(file_paths), failing)

\* what a call of safe_cleanup raises to its caller
RECURSIVE safe_cleanup_exc(_, _, _)
safe_cleanup_exc(fsys, file_paths, failing) ==
    IF file_paths = <<>> THEN NoExc
    ELSE LET e == Caught(DeleteError(fsys, Head(file_paths), failing))
         IN  IF e # NoExc THEN e
             ELSE safe_cleanup_exc(CleanupOne(fsys, Head(file_paths), failing),
                                   Tail(file_paths), failing)

\* the paths of file_paths a deletion is attempted on, and so the ones
\* whose deletion may raise
Existing(fsys, file_paths) ==
    IF diskFaults THEN {file_paths[i] : i \in DOMAIN file_paths} \cap fsys
    ELSE {}

(* ----------------------------- dispatching ----------------------------- *)

\* A message arrives: filters.VIDEO -> handle_video, filters.Document.ALL ->
\* handle_document (src/bot.py:491-492).  The locals of the handler start
\* at None (src/bot.py:285-288, 374-377).
Receive ==
    /\ pc \in {"idle", "returned"}
    /\ served < MaxRequests
    /\ served' = served + 1
    /\ \E h \in Handlers, m \in MimeTypes, s \in DeclaredSizes :
        /\ h = "handle_video" => m = "video/mp4"
        /\ handler' = h
        /\ mime' = m
        /\ declared' = s
    /\ pc' = "entry"
    /\ actual' = 0
    /\ now' = 0
    /\ deadline' = -1
    /\ start_time' = 0
    /\ download_time' = -1
    /\ conversion_time' = -1
    /\ video_path' = None
    /\ temp_dir' = None
    /\ gif_path' = None
    /\ conv_dir' = None
    /\ clip' = NoClip
    /\ gif' = NoGif
    /\ status' = ""
    /\ deleted' = FALSE
    /\ log' = <<>>
    /\ exc' = NoExc
    /\ success' = FALSE
    /\ result' = "none"
    /\ delFailed' = FALSE
    /\ open_clips' = {}
    /\ UNCHANGED <<fs, diskFaults, otherVars>>

\* a test of the presence of a content type only
IsVideoMime_AnyType(m) == m # "None"

\* mime_type and mime_type.startswith('video/'), src/bot.py:371
IsVideoMime(m) == m = "video/mp4"

\* handle_document, else branch (src/bot.py:451-452): the reply is not
\* guarded, so a raise leaves the handler.
RejectNonVideo ==
    /\ pc = "entry"
    /\ handler = "handle_document"
    /\ ~IsVideoMime(mime)
    /\ \E r \in {"ok", "raise"} :
        /\ Logged("reply_text", T_Instruction, r)
        /\ pc' = IF r = "ok" THEN "returned" ELSE "raised"
        /\ exc' = IF r = "ok" THEN NoExc ELSE Exc("Exception", T_Internal)
    /\ result' = "Rejected"
    /\ UNCHANGED <<served, diskFaults, otherVars, open_clips, reqVars,
                   timeVars, fs, pathVars, mediaVars, status, deleted,
                   success, delFailed>>

\* a handler that goes straight to the download
FirstStep_SkipValidation(h) == "mktemp"

\* The step after the processing message in each handler: handle_video
\* looks the file up first (src/bot.py:292), handle_document checks the
\* size first (src/bot.py:381).
FirstStep(h) == IF h = "handle_video" THEN "get_file" ELSE "check_size"

\* processing_message = await update.message.reply_text(...), before the
\* try (src/bot.py:283, 372).
PostProcessing ==
    /\ pc = "entry"
    /\ handler = "handle_video" \/ IsVideoMime(mime)
    /\ \E r \in {"ok", "raise"} :
        /\ Logged("reply_text", T_Processing, r)
        /\ pc' = IF r = "ok" THEN FirstStep(handler) ELSE "raised"
        /\ status' = IF r = "ok" THEN T_Processing ELSE status
        /\ exc' = IF r = "ok" THEN NoExc ELSE Exc("Exception", T_Internal)
        /\ result' = IF r = "ok" THEN result ELSE "Failed"
    /\ UNCHANGED <<served, diskFaults, otherVars, open_clips, reqVars,
                   timeVars, fs, pathVars, mediaVars, deleted, success,
                   delFailed>>


(* ------------------------- raising in the try -------------------------- *)

\* An exception raised in the try of a handler reaches its except clauses
\* (src/bot.py:338-358, 427-447).
Raise(e) ==
    /\ pc' = "except"
    /\ exc' = e

\* What a pure transport call raises: a telegram.error.TelegramError, which
\* is neither a ValueError nor a TimeoutError.
TransportError == Exc("Exception", T_Internal)

(* --------------------------- validation steps -------------------------- *)

\* a handle_video that goes from the file lookup straight to the download
AfterGetFile_NoCheck(h) == "mktemp"

\* the step after get_file / after the size check, per handler
AfterGetFile(h) == IF h = "handle_video" THEN "check_size" ELSE "mktemp"
AfterCheckSize(h) == IF h = "handle_video" THEN "mktemp" ELSE "get_file"

\* video = await update.message.video.get_file()   (src/bot.py:292)
\* file = await document.get_file()                (src/bot.py:385)
GetFile ==
    /\ pc = "get_file"
    /\ \E r \in {"ok", "raise"} :
        /\ Logged("get_file", "", r)
        /\ IF r = "ok"
           THEN pc' = AfterGetFile(handler) /\ exc' = exc
           ELSE Raise(TransportError)
    /\ UNCHANGED <<served, diskFaults, otherVars, open_clips, reqVars,
                   timeVars, fs, pathVars, mediaVars, status, deleted,
                   success, result, delFailed>>

\* file_size > MAX_VIDEO_SIZE_MB * 1024 * 1024   (src/bot.py:295, 381)
TooLarge(file_size) == file_size > MAX_VIDEO_SIZE_MB * MB

\* if ...: raise ValueError(f"Video file is too large ...")
CheckSize ==
    /\ pc = "check_size"
    /\ IF TooLarge(declared)
       THEN Raise(Exc("ValueError", T_TooLargeIn))
       ELSE pc' = AfterCheckSize(handler) /\ exc' = exc
    /\ UNCHANGED <<served, diskFaults, otherVars, open_clips, reqVars,
                   timeVars, fs, pathVars, mediaVars, status, deleted, log,
                   success, result, delFailed>>

\* video_file = tempfile.NamedTemporaryFile(suffix='.mp4', delete=False);
\* video_path = video_file.name; video_file.close()  (src/bot.py:299-301).
\* The file exists from here on; a raise (no space, no permission) leaves
\* video_path at None.
MkTemp ==
    /\ pc = "mktemp"
    /\ \E r \in {"ok", "raise"} :
        /\ Logged("NamedTemporaryFile", "", r)
        /\ IF r = "ok"
           THEN /\ video_path' = TmpFile(FreshId(fs, "tmpfile"))
                /\ fs' = fs \cup {video_path'}
                /\ pc' = "download"
                /\ exc' = exc
           ELSE /\ Raise(Exc("Exception", T_Internal))
                /\ UNCHANGED <<video_path, fs>>
    /\ UNCHANGED <<served, diskFaults, otherVars, open_clips, reqVars,
                   timeVars, temp_dir, gif_path, conv_dir, mediaVars, status,
                   deleted, success, result, delFailed>>

(* --------------------------- run_with_timeout -------------------------- *)

\* one deadline for the whole request, counted from its arrival
Arm_FromArrival(t, timeout) == timeout

\* asyncio.wait_for(coro, timeout=timeout) arms its timer when it is called
\* (src/bot.py:122): the deadline counts from that moment.
Arm(t, timeout) == t + timeout

\* run_with_timeout (src/bot.py:119-124).  The timer of wait_for is a
\* callback of the event loop: it runs only while the awaited coroutine is
\* suspended at an await of its own.  yields says whether the coroutine has
\* such an await; finish is when it would end by itself, with outcome.
\*   - yields and the deadline passes first: the coroutine is cancelled and
\*     TimeoutError is raised at the deadline;
\*   - otherwise the coroutine runs to its end and its outcome (a return or
\*     a raise) is the outcome of run_with_timeout.
run_with_timeout(yields, finish, dl, outcome) ==
    IF yields /\ finish > dl
    THEN [res |-> Exc("TimeoutError", T_OperationTimedOut), at |-> dl,
          cancelled |-> TRUE]
    ELSE [res |-> outcome, at |-> finish, cancelled |-> FALSE]

\* Whether the coroutine handed to run_with_timeout suspends at an await.
\* download_to_drive awaits the network (src/bot.py:305, 394);
\* convert_video_to_gif (src/bot.py:126-199) contains no await at all: it is
\* declared async and runs from its first line to its return in one piece.
Yields(coro) == coro = "download_to_drive"

(* ------------------------------- download ------------------------------ *)

\* start_time = time.time(); run_with_timeout(download_to_drive(video_path),
\* TIMEOUT_SECONDS) is entered   (src/bot.py:304-305, 393-394)
DownloadStart ==
    /\ pc = "download"
    /\ start_time' = now
    /\ deadline' = Arm(now, TIMEOUT_SECONDS)
    /\ Logged("download_to_drive", "", "started")
    /\ pc' = "downloading"
    /\ UNCHANGED <<served, diskFaults, otherVars, open_clips, reqVars, now,
                   download_time, conversion_time, fs, pathVars, mediaVars,
                   status, deleted, exc, success, result, delFailed>>

\* The download ends: by itself (returning, or raising the transport's
\* error) or cancelled by the timer.  download_time is set
\* only when it returned (src/bot.py:306).
DownloadEnd ==
    /\ pc = "downloading"
    /\ \E d \in DownloadDurations, o \in {NoExc, TransportError},
          a \in ActualSizes :
        LET r == run_with_timeout(Yields("download_to_drive"), now + d,
                                  deadline, o)
        IN  /\ now' = r.at
            /\ deadline' = -1
            /\ IF r.res = NoExc
               THEN /\ Logged("download_to_drive", "", "ok")
                    /\ actual' = a
                    /\ download_time' = now' - start_time
                    /\ pc' = "convert"
                    /\ exc' = exc
               ELSE /\ Logged("download_to_drive", "",
                              IF r.cancelled THEN "cancelled" ELSE "raise")
                    /\ Raise(r.res)
                    /\ UNCHANGED <<actual, download_time>>
    /\ UNCHANGED <<served, diskFaults, otherVars, open_clips, reqVars,
                   start_time, conversion_time, fs, pathVars, clip, gif,
                   status, deleted, success, result, delFailed>>

\* The download does not end by itself: the transfer stalls while
\* download_to_drive is suspended at its await (src/bot.py:305, 394).
DownloadStall ==
    /\ pc = "downloading"
    /\ pc' = "download_stalled"
    /\ UNCHANGED <<served, diskFaults, otherVars, open_clips, reqVars,
                   timeVars, fs, pathVars, mediaVars, status, deleted, log,
                   exc, success, result, delFailed>>

(* ------------------------- convert_video_to_gif ------------------------ *)

\* VideoFileClip(path): the decoded clip, from its first frame
Decode(duration, size) ==
    [start |-> 0, duration |-> duration, width |-> size[1], height |-> size[2]]

\* clip.subclip(t_start, t_end): the part from t_start to t_end
subclip(c, t_start, t_end) ==
    [c EXCEPT !.start = c.start + t_start, !.duration = t_end - t_start]

\* clip.resize(width=w): the height follows in proportion
resize(c, w) ==
    [c EXCEPT !.width = w, !.height = (c.height * w) \div c.width]

\* if video_clip.duration > max_duration: subclip(0, max_duration)
\* (src/bot.py:142-144)
Trim(c, max_duration) ==
    IF c.duration > max_duration THEN subclip(c, 0, max_duration) ELSE c

\* a resize made whatever the width is
Resize_Always(c, max_width) == resize(c, max_width)

\* if video_clip.size[0] > max_width: resize(width=max_width)
\* (src/bot.py:147-149)
Resize(c, max_width) ==
    IF c.width > max_width THEN resize(c, max_width) ELSE c

\* actual_fps = min(fps, 25)   (src/bot.py:153)
ActualFps(fps) == IF fps < FPS_CEILING THEN fps ELSE FPS_CEILING

\* Where the collaborators may raise inside the try of convert_video_to_gif,
\* and "no_gif": write_gif returns without having created the file.
FailPoints ==
    {"none", "decode", "subclip", "resize", "write_videofile", "decode_mp4",
     "write_gif", "no_gif"}

T_GifNotCreated == "GIF file was not created"

\* The body of convert_video_to_gif (src/bot.py:128-199) on the file at
\* video_path of size file_size, whose clip has the native duration and
\* size; the encoder writes a GIF of gif_size bytes; failAt / e say where a
\* collaborator raises and what; failing is handed to safe_cleanup.
\* Returns what it raised (NoExc: it returned gif_path, temp_dir), the
\* filesystem it leaves, the clip it decoded, the clips it leaves open and
\* the GIF it made of the clip.
convert_video_to_gif(fsys, file_size, duration, size, gif_size, failAt, e, failing) ==
    LET dir == TmpDir(FreshId(fsys, "tmpdir"))
        mp4_path == Join(dir, "output.mp4")
        gifp == Join(dir, "output.gif")
        c0 == Decode(duration, size)
        c1 == Trim(c0, MAX_DURATION_SECONDS)
        c2 == Resize(c1, MAX_WIDTH_PX)
        raised ==
            IF TooLarge(file_size) THEN Exc("ValueError", T_TooLargeIn)
            ELSE IF failAt = "decode" THEN e
            ELSE IF failAt = "subclip" /\ c1 # c0 THEN e
            ELSE IF failAt = "resize" /\ c2 # c1 THEN e
            ELSE IF failAt \in {"write_videofile", "decode_mp4", "write_gif"}
                 THEN e
            ELSE IF failAt = "no_gif" THEN Exc("Exception", T_GifNotCreated)
            ELSE NoExc
        \* output.mp4 exists once write_videofile was reached and returned
        mp4Written ==
            /\ ~TooLarge(file_size)
            /\ failAt \in {"none", "decode_mp4", "write_gif", "no_gif"}
               \/ (failAt = "subclip" /\ c1 = c0)
               \/ (failAt = "resize" /\ c2 = c1)
        gifWritten == mp4Written /\ failAt \notin {"decode_mp4", "write_gif", "no_gif"}
        written == {dir} \cup (IF mp4Written THEN {mp4_path} ELSE {})
                         \cup (IF gifWritten THEN {gifp} ELSE {})
        \* video_clip is open from line 139 to its close() at line 185,
        \* from_mp4_clip from line 172 to its close() at line 179; a raise
        \* in between goes to the except of line 196, which closes nothing
        video_clip_open ==
            /\ ~TooLarge(file_size)
            /\ \/ failAt \in {"write_videofile", "decode_mp4", "write_gif"}
               \/ (failAt = "subclip" /\ c1 # c0)
               \/ (failAt = "resize" /\ c2 # c1)
        from_mp4_clip_open == ~TooLarge(file_size) /\ failAt = "write_gif"
    IN  [res |-> raised,
         dir |-> dir,
         gif_path |-> gifp,
         \* except Exception: safe_cleanup([temp_dir]); raise e
         fs |-> IF raised = NoExc THEN fsys \cup written
                ELSE safe_cleanup(fsys \cup written, <<dir>>, failing),
         clip |-> IF raised = NoExc THEN c0 ELSE NoClip,
         open |-> (IF video_clip_open THEN {"video_clip"} ELSE {})
                  \cup (IF from_mp4_clip_open THEN {"from_mp4_clip"} ELSE {}),
         gif |-> IF raised = NoExc
                 THEN [size |-> gif_size, start |-> c2.start,
                       duration |-> c2.duration, width |-> c2.width,
                       height |-> c2.height, fps |-> ActualFps(FPS)]
                 ELSE NoGif]

\* start_time = time.time(); run_with_timeout(convert_video_to_gif(...),
\* TIMEOUT_SECONDS) is entered   (src/bot.py:310-314, 399-403)
ConvertStart ==
    /\ pc = "convert"
    /\ start_time' = now
    /\ deadline' = Arm(now, TIMEOUT_SECONDS)
    /\ Logged("convert_video_to_gif", "", "started")
    /\ pc' = "converting"
    /\ UNCHANGED <<served, diskFaults, otherVars, open_clips, reqVars, now,
                   download_time, conversion_time, fs, pathVars, mediaVars,
                   status, deleted, exc, success, result, delFailed>>

\* The conversion runs.  A cancellation (were the timer to fire) would raise
\* CancelledError inside the coroutine, which "except Exception" (line 196)
\* does not catch: the scratch directory would stay.
ConvertRun ==
    /\ pc = "converting"
    /\ \E nd \in NativeDurations, ns \in NativeSizes, g \in GifSizes,
          fp \in FailPoints, e \in InternalErrors, c \in ConvertDurations,
          failing \in SUBSET (IF diskFaults THEN {TmpDir(FreshId(fs, "tmpdir"))}
                              ELSE {}) :
        LET body == convert_video_to_gif(fs, actual, nd, ns, g, fp, e, failing)
            r == run_with_timeout(Yields("convert_video_to_gif"), now + c,
                                  deadline, body.res)
        IN  /\ now' = r.at
            /\ deadline' = -1
            /\ conv_dir' = body.dir
            /\ open_clips' = body.open
            /\ fs' = IF r.cancelled THEN fs \cup {body.dir} ELSE body.fs
            /\ delFailed' = (delFailed \/ (~r.cancelled /\ body.res # NoExc
                                           /\ body.dir \in failing))
            /\ IF r.res = NoExc
               THEN /\ Logged("convert_video_to_gif", "", "ok")
                    /\ gif_path' = body.gif_path
                    /\ temp_dir' = body.dir
                    /\ clip' = body.clip
                    /\ gif' = body.gif
                    /\ conversion_time' = now' - start_time
                    /\ pc' = "check_gif"
                    /\ exc' = exc
               ELSE /\ Logged("convert_video_to_gif", "",
                              IF r.cancelled THEN "cancelled" ELSE "raise")
                    /\ Raise(r.res)
                    /\ UNCHANGED <<gif_path, temp_dir, clip, gif,
                                   conversion_time>>
    /\ UNCHANGED <<served, diskFaults, otherVars, reqVars, start_time,
                   download_time, video_path, actual, status, deleted,
                   success, result>>

\* The conversion does not end by itself: the directory was made
\* (src/bot.py:128), the input clip opened (line 139), and the encoder
\* blocks inside write_videofile (lines 161-168).
ConvertStall ==
    /\ pc = "converting"
    /\ ~TooLarge(actual)
    /\ conv_dir' = TmpDir(FreshId(fs, "tmpdir"))
    /\ fs' = fs \cup {conv_dir'}
    /\ open_clips' = {"video_clip"}
    /\ pc' = "convert_stalled"
    /\ UNCHANGED <<served, diskFaults, otherVars, reqVars, timeVars,
                   video_path, temp_dir, gif_path, mediaVars, status,
                   deleted, log, exc, success, result, delFailed>>

\* the coroutine a stalled handler is waiting for
Awaited == IF pc = "download_stalled" THEN "download_to_drive"
           ELSE "convert_video_to_gif"

\* The timer of asyncio.wait_for fires at the deadline on an operation that
\* has not ended: the coroutine is cancelled and run_with_timeout raises
\* TimeoutError (src/bot.py:122-124).  The event loop can run the timer
\* only if the coroutine is suspended at an await.
TimerFires ==
    /\ pc \in {"download_stalled", "convert_stalled"}
    /\ LET r == run_with_timeout(Yields(Awaited), deadline + 1, deadline,
                                 NoExc)
       IN  /\ r.cancelled
           /\ now' = r.at
           /\ deadline' = -1
           /\ Logged(Awaited, "", "cancelled")
           /\ Raise(r.res)
    /\ UNCHANGED <<served, diskFaults, otherVars, open_clips, reqVars,
                   start_time, download_time, conversion_time, fs, pathVars,
                   mediaVars, status, deleted, success, result, delFailed>>

(* ------------------------- leaving the handler ------------------------- *)

\* a finally that releases the input file only
FinallyPaths_InputOnly == <<video_path>>

\* finally: safe_cleanup([video_path, temp_dir])   (src/bot.py:359-361,
\* 448-450)
FinallyPaths == <<video_path, temp_dir>>

Finally ==
    \E failing \in SUBSET Existing(fs, FinallyPaths) :
        /\ fs' = safe_cleanup(fs, FinallyPaths, failing)
        /\ delFailed' = (delFailed \/ failing # {})

(* ------------------------- size of the output -------------------------- *)

\* a limit one MB too high
GifTooLarge_OneMore(size) == size > (MAX_GIF_SIZE_MB + 1) * MB

\* gif_size_mb = os.path.getsize(gif_path) / (1024 * 1024);
\* if gif_size_mb > 50   (src/bot.py:319-320, 408-409)
GifTooLarge(size) == size > MAX_GIF_SIZE_MB * MB

\* The paths released on the oversized-output path before the return
\* (src/bot.py:325, 414).
EarlyCleanupPaths == <<video_path, temp_dir>>

\* src/bot.py:318-326: an oversized GIF is reported, the workspace released
\* and the handler returns (through its finally, which releases again); a
\* raise of the edit goes to "except Exception".
CheckGif ==
    /\ pc = "check_gif"
    /\ IF GifTooLarge(gif.size)
       THEN \E r \in {"ok", "raise"} :
            /\ Logged("edit_text", T_OutTooLarge, r)
            /\ IF r = "ok"
               THEN /\ status' = T_OutTooLarge
                    /\ \E f1 \in SUBSET Existing(fs, EarlyCleanupPaths) :
                         LET fs1 == safe_cleanup(fs, EarlyCleanupPaths, f1)
                         IN  \E f2 \in SUBSET Existing(fs1, FinallyPaths) :
                               /\ fs' = safe_cleanup(fs1, FinallyPaths, f2)
                               /\ delFailed' = (delFailed \/ f1 # {} \/ f2 # {})
                    /\ pc' = "returned"
                    /\ result' = "Failed"
                    /\ exc' = exc
               ELSE /\ Raise(TransportError)
                    /\ UNCHANGED <<status, fs, delFailed, result>>
       ELSE /\ pc' = "send_status"
            /\ UNCHANGED <<status, fs, delFailed, result, exc, log>>
    /\ UNCHANGED <<served, diskFaults, otherVars, open_clips, reqVars,
                   timeVars, pathVars, mediaVars, deleted, success>>

(* ----------------------- send_gif_with_fallbacks ----------------------- *)

\* how a send of the transport ends; "size_limit" is a raise whose error
\* says the payload exceeds the transport's size limit
SendOutcomes == {"ok", "raise", "size_limit"}

\* a delivery that gives up after the first failed send
AfterFailedSend_GiveUp(outcome, following) == "all_failed"

\* a method that does not return after its send and falls through
AfterSuccessfulSend_FallThrough(following) == following

\* 'return True' after a send that did not raise (src/bot.py:228, 246,
\* 259): send_gif_with_fallbacks is left, back to the handler.
AfterSuccessfulSend(following) == "after_send"

\* What an except clause of a delivery method does with a failed send
\* (src/bot.py:229-230, 247-248, 260-261): "except Exception" logs a
\* warning whatever the error is, and the function goes on to what follows.
AfterFailedSend(outcome, following) == following

\* await processing_message.edit_text("GIF created! ...")  (src/bot.py:208);
\* a raise goes to the outer except of the function (line 270).
SendStatus ==
    /\ pc = "send_status"
    /\ \E r \in {"ok", "raise"} :
        /\ Logged("edit_text", T_GifCreated, r)
        /\ status' = IF r = "ok" THEN T_GifCreated ELSE status
        /\ pc' = IF r = "ok" THEN "method1" ELSE "send_except"
    /\ UNCHANGED <<served, diskFaults, otherVars, open_clips, reqVars,
                   timeVars, fs, pathVars, mediaVars, deleted, exc, success,
                   result, delFailed>>

\* Method 1 (src/bot.py:212-230): the dimensions are read with PIL, then
\* reply_animation is called with them.
Method1 ==
    /\ pc = "method1"
    /\ \/ /\ Logged("Image.open", "method1", "raise")
          /\ pc' = "method2"
          /\ UNCHANGED success
       \/ \E o \in SendOutcomes :
          /\ Logged("reply_animation", "method1", o)
          /\ success' = (o = "ok")
          /\ pc' = IF o = "ok" THEN AfterSuccessfulSend("method2")
                   ELSE AfterFailedSend(o, "method2")
    /\ UNCHANGED <<served, diskFaults, otherVars, open_clips, reqVars,
                   timeVars, fs, pathVars, mediaVars, status, deleted, exc,
                   result, delFailed>>

\* Method 2 (src/bot.py:233-248): the status edit, the copy to
\* animation.gif and the send are all inside the try.
Method2 ==
    /\ pc = "method2"
    /\ \/ /\ Logged("edit_text", T_FirstFailed, "raise")
          /\ pc' = "method3"
          /\ UNCHANGED <<status, fs, success>>
       \/ /\ log' = log \o <<Call("edit_text", T_FirstFailed, "ok"),
                             Call("copy2", "method2", "raise")>>
          /\ status' = T_FirstFailed
          /\ pc' = "method3"
          /\ UNCHANGED <<fs, success>>
       \/ \E o \in SendOutcomes :
          /\ log' = log \o <<Call("edit_text", T_FirstFailed, "ok"),
                             Call("reply_animation", "method2", o)>>
          /\ status' = T_FirstFailed
          /\ fs' = fs \cup {Join(Dirname(gif_path), "animation.gif")}
          /\ success' = (o = "ok")
          /\ pc' = IF o = "ok" THEN AfterSuccessfulSend("method3")
                   ELSE AfterFailedSend(o, "method3")
    /\ UNCHANGED <<served, diskFaults, otherVars, open_clips, reqVars,
                   timeVars, pathVars, mediaVars, deleted, exc, result,
                   delFailed>>

\* Method 3 (src/bot.py:251-261): the status edit, then reply_document.
Method3 ==
    /\ pc = "method3"
    /\ \/ /\ Logged("edit_text", T_AnimFailed, "raise")
          /\ pc' = "all_failed"
          /\ UNCHANGED <<status, success>>
       \/ \E o \in SendOutcomes :
          /\ log' = log \o <<Call("edit_text", T_AnimFailed, "ok"),
                             Call("reply_document", "method3", o)>>
          /\ status' = T_AnimFailed
          /\ success' = (o = "ok")
          /\ pc' = IF o = "ok" THEN AfterSuccessfulSend("all_failed")
                   ELSE AfterFailedSend(o, "all_failed")
    /\ UNCHANGED <<served, diskFaults, otherVars, open_clips, reqVars,
                   timeVars, fs, pathVars, mediaVars, deleted, exc, result,
                   delFailed>>

\* All methods failed (src/bot.py:263-268): the edit is inside the outer
\* try, so its raise goes to the outer except.
AllFailed ==
    /\ pc = "all_failed"
    /\ \E r \in {"ok", "raise"} :
        /\ Logged("edit_text", T_CouldNotSendApi, r)
        /\ status' = IF r = "ok" THEN T_CouldNotSendApi ELSE status
        /\ pc' = IF r = "ok" THEN "after_send" ELSE "send_except"
    /\ success' = FALSE
    /\ UNCHANGED <<served, diskFaults, otherVars, open_clips, reqVars,
                   timeVars, fs, pathVars, mediaVars, deleted, exc, result,
                   delFailed>>

\* The outer except of send_gif_with_fallbacks (src/bot.py:270-275): its
\* edit is not guarded, so a raise goes on into the try of the handler.
SendExcept ==
    /\ pc = "send_except"
    /\ \E r \in {"ok", "raise"} :
        /\ Logged("edit_text", T_CouldNotSendUnexpected, r)
        /\ IF r = "ok"
           THEN /\ status' = T_CouldNotSendUnexpected
                /\ pc' = "after_send"
                /\ exc' = exc
           ELSE /\ Raise(TransportError)
                /\ UNCHANGED status
    /\ success' = FALSE
    /\ UNCHANGED <<served, diskFaults, otherVars, open_clips, reqVars,
                   timeVars, fs, pathVars, mediaVars, deleted, result,
                   delFailed>>

\* a handler that removes the status message however the delivery ended
ShouldDelete_Always(s) == TRUE

\* 'if success:' before the try that deletes the processing message
\* (src/bot.py:331, 420)
ShouldDelete(s) == s

\* Back in the handler (src/bot.py:331-336, then the finally): after a
\* successful delivery the processing message is deleted, a raise of the
\* delete is passed over.
AfterSend ==
    /\ pc = "after_send"
    /\ \/ /\ ShouldDelete(success)
          /\ \E r \in {"ok", "raise"} :
               /\ Logged("delete", "", r)
               /\ deleted' = (r = "ok")
       \/ /\ ~ShouldDelete(success)
          /\ UNCHANGED <<log, deleted>>
    /\ result' = IF success THEN "Completed" ELSE "Failed"
    /\ Finally
    /\ pc' = "returned"
    /\ UNCHANGED <<served, diskFaults, otherVars, open_clips, reqVars,
                   timeVars, pathVars, mediaVars, status, exc, success>>

(* ----------------------- the handlers' except clauses ------------------ *)

\* handlers that report every exception with the generic apology
ReportText_Generic(e) == T_CouldNotConvert

\* The text each except clause reports (src/bot.py:341, 345-347, 354-356):
\* str(e) for a ValueError, a fixed text for the other two.
ReportText(e) ==
    IF e.kind = "ValueError" THEN e.msg
    ELSE IF e.kind = "TimeoutError" THEN T_TimedOut
    ELSE T_CouldNotConvert

\* except ValueError / except TimeoutError (src/bot.py:338-347, 427-436):
\* the edit is not guarded; when it raises, the finally runs and the
\* exception leaves the handler.
ExceptUnguarded ==
    /\ pc = "except"
    /\ exc.kind \in {"ValueError", "TimeoutError"}
    /\ \E r \in {"ok", "raise"} :
        /\ Logged("edit_text", ReportText(exc), r)
        /\ status' = IF r = "ok" THEN ReportText(exc) ELSE status
        /\ pc' = IF r = "ok" THEN "returned" ELSE "raised"
        /\ exc' = IF r = "ok" THEN exc ELSE TransportError
    /\ result' = "Failed"
    /\ Finally
    /\ UNCHANGED <<served, diskFaults, otherVars, open_clips, reqVars,
                   timeVars, pathVars, mediaVars, deleted, success>>

\* except Exception (src/bot.py:348-358, 437-447): the edit is guarded by
\* handle_error, whose own reply is guarded too (src/bot.py:99-105).
ExceptException ==
    /\ pc = "except"
    /\ exc.kind = "Exception"
    /\ \/ /\ Logged("edit_text", ReportText(exc), "ok")
          /\ status' = ReportText(exc)
       \/ \E r \in {"ok", "raise"} :
          /\ log' = log \o <<Call("edit_text", ReportText(exc), "raise"),
                             Call("reply_text", T_CouldNotConvert, r)>>
          /\ UNCHANGED status
    /\ pc' = "returned"
    /\ result' = "Failed"
    /\ Finally
    /\ UNCHANGED <<served, diskFaults, otherVars, open_clips, reqVars,
                   timeVars, pathVars, mediaVars, deleted, exc, success>>

\* error_handler (src/bot.py:454-462), which the dispatcher calls with an
\* exception that left a handler.
ErrorHandler ==
    /\ pc = "raised"
    /\ \E r \in {"ok", "raise"} :
        Logged("reply_text", T_WentWrong, r)
    /\ pc' = "returned"
    /\ UNCHANGED <<served, diskFaults, otherVars, open_clips, reqVars,
                   timeVars, fs, pathVars, mediaVars, status, deleted, exc,
                   success, result, delFailed>>

(* ----------------------------- specification --------------------------- *)

Next ==
    \/ Receive
    \/ RejectNonVideo
    \/ PostProcessing
    \/ GetFile
    \/ CheckSize
    \/ MkTemp
    \/ DownloadStart
    \/ DownloadEnd
    \/ DownloadStall
    \/ ConvertStart
    \/ ConvertRun
    \/ ConvertStall
    \/ TimerFires
    \/ CheckGif
    \/ SendStatus
    \/ Method1
    \/ Method2
    \/ Method3
    \/ AllFailed
    \/ SendExcept
    \/ AfterSend
    \/ ExceptUnguarded
    \/ ExceptException
    \/ ErrorHandler

Spec == Init /\ [][Next]_vars

TypeOK ==
    /\ pc \in {"idle", "entry", "get_file", "check_size", "mktemp", "download",
               "downloading", "download_stalled", "convert", "converting",
               "convert_stalled", "check_gif",
               "send_status", "method1", "method2", "method3", "all_failed",
               "send_except", "after_send", "except", "raised", "returned"}
    /\ served \in 0..MaxRequests
    /\ result \in {"none", "Rejected", "Completed", "Failed"}
    /\ success \in BOOLEAN
    /\ deleted \in BOOLEAN
    /\ delFailed \in BOOLEAN

(* ------------------------- reading the call log ------------------------ *)

\* the handler has been left, by a return or by a raise
HandlerExited == pc \in {"raised", "returned"}
\* the request entered the pipeline (a video, or a document of a video type)
InPipeline == pc # "idle" /\ (handler = "handle_video" \/ IsVideoMime(mime))

Calls(ops) == {i \in DOMAIN log : log[i].op \in ops}
SendOps == {"reply_animation", "reply_document"}
\* the sends issued so far, and those of one delivery method
Sends == Calls(SendOps)
SendsOf(m) == {i \in Sends : log[i].arg = m}
\* the texts the requester has been shown: edits and replies that returned
Shown == {log[i].arg : i \in {j \in Calls({"edit_text", "reply_text"}) : log[j].res = "ok"}}
\* the texts the code tried to show
Reported == {log[i].arg : i \in Calls({"edit_text", "reply_text"})}

(* -------------------------------- C1 ----------------------------------- *)

\* C1: once handle_video / handle_document has been left, by any exit path,
\* the downloaded input file does not exist and neither does the scratch
\* directory of convert_video_to_gif nor anything under it, provided no
\* deletion raised.
C1_WorkspaceRemoved ==
    (HandlerExited /\ ~delFailed) =>
        /\ video_path \notin fs
        /\ conv_dir # None => \A q \in fs : ~Under(q, conv_dir)

\* a request that created the input file, the scratch directory, both
\* outputs and the renamed copy, delivered by method 2, has returned
C1_Witness ==
    /\ pc = "returned"
    /\ result = "Completed"
    /\ video_path # None
    /\ conv_dir # None
    /\ \E i \in SendsOf("method2") : log[i].res = "ok"

(* -------------------------------- C2 ----------------------------------- *)

\* C2: a request whose declared size exceeds the maximum input size never
\* starts a download, never creates the temporary input file or a scratch
\* directory, never converts and never sends, and has failed when its
\* handler is left.
C2_OversizedRejectedEarly ==
    (InPipeline /\ declared > MAX_VIDEO_SIZE_MB * MB) =>
        /\ Calls({"download_to_drive", "NamedTemporaryFile",
                  "convert_video_to_gif"} \cup SendOps) = {}
        /\ video_path = None
        /\ conv_dir = None
        /\ pc \notin {"mktemp", "download", "downloading", "convert",
                      "converting", "check_gif", "send_status", "method1",
                      "method2", "method3", "all_failed", "send_except",
                      "after_send"}
        /\ HandlerExited => result = "Failed"

\* an oversized video was rejected by handle_video with the validation text
C2_Witness ==
    /\ pc = "returned"
    /\ handler = "handle_video"
    /\ declared > MAX_VIDEO_SIZE_MB * MB
    /\ result = "Failed"
    /\ status = T_TooLargeIn

(* ----------------------------- C3 and C4 ------------------------------- *)

Methods == {"method1", "method2", "method3"}
MethodPc(k) == <<"method1", "method2", "method3">>[k]
\* the text of the status edit that opens a method (method 1 has none)
MethodStatus(k) == <<"", T_FirstFailed, T_AnimFailed>>[k]
\* the calls of the log that belong to delivery method k
MethodCalls(k) ==
    {i \in DOMAIN log : log[i].arg = MethodPc(k)
                        \/ (k > 1 /\ log[i].arg = MethodStatus(k))}
\* the call that opens method k: its status edit, or for method 1 its only call
Entries(k) ==
    {i \in MethodCalls(k) : k = 1 \/ log[i].arg = MethodStatus(k)}
\* method k raised before its send: the status edit, PIL or the copy
PrepRaised(k) ==
    \E i \in MethodCalls(k) : log[i].op \notin SendOps /\ log[i].res = "raise"
Succeeded(k) == \E i \in SendsOf(MethodPc(k)) : log[i].res = "ok"
\* method k was attempted and failed, and nothing in it was a size-limit
\* rejection
FailedNoSize(k) ==
    /\ MethodCalls(k) # {}
    /\ ~Succeeded(k)
    /\ \A i \in MethodCalls(k) : log[i].res # "size_limit"

\* C3: after a send was rejected with the transport's size-limit error no
\* call of any delivery method follows, and the delivery does not succeed.
C3_SizeLimitStopsDelivery ==
    \A i \in DOMAIN log :
        log[i].res = "size_limit" =>
            /\ \A j \in DOMAIN log, k \in 1..3 :
                 j > i => j \notin MethodCalls(k)
            /\ ~success
            /\ pc \notin {"method2", "method3"}

\* C4 as stated: the sends follow the order method 1, 2, 3; once method k
\* has failed without a size-limit rejection and the function has moved past
\* method k+1, exactly one send of method k+1 was issued; a request
\* completed by method 3 after methods 1 and 2 failed has made exactly 3
\* sends.
C4_NextSendExactlyOnce ==
    /\ \A i, j \in Sends : \A a, b \in 1..3 :
         (i < j /\ log[i].arg = MethodPc(a) /\ log[j].arg = MethodPc(b)) => a < b
    /\ \A k \in 1..2 :
         (FailedNoSize(k) /\ pc # MethodPc(k + 1)) =>
             Cardinality(SendsOf(MethodPc(k + 1))) = 1
    /\ (result = "Completed" /\ Succeeded(3)) => Cardinality(Sends) = 3

\* C4 amended: the methods are attempted in the order 1, 2, 3, each at most
\* once and with at most one send; once method k has failed without a
\* size-limit rejection and the function has moved past method k+1, method
\* k+1 was attempted exactly once, and its send was issued exactly once
\* unless its status edit or its preparation raised (then it was not
\* issued); a request completed by method 3 has attempted all 3 methods
\* and made one send for each method whose preparation did not raise.
C4_NextMethodExactlyOnce ==
    /\ \A a, b \in 1..3 : \A i \in MethodCalls(a), j \in MethodCalls(b) :
         a < b => i < j
    /\ \A k \in 1..3 :
         /\ Cardinality(Entries(k)) <= 1
         /\ Cardinality(SendsOf(MethodPc(k))) <= 1
    /\ \A k \in 1..2 :
         (FailedNoSize(k) /\ pc # MethodPc(k + 1)) =>
             /\ Cardinality(Entries(k + 1)) = 1
             /\ Cardinality(SendsOf(MethodPc(k + 1))) =
                    (IF PrepRaised(k + 1) THEN 0 ELSE 1)
    /\ (result = "Completed" /\ Succeeded(3)) =>
         /\ \A k \in 1..3 : Cardinality(Entries(k)) = 1
         /\ Cardinality(Sends) =
                Cardinality({k \in 1..3 : ~PrepRaised(k)})

\* methods 1 and 2 failed at their sends without a size-limit rejection,
\* method 3 delivered, and the request completed after 3 sends
C4_Witness ==
    /\ pc = "returned"
    /\ result = "Completed"
    /\ FailedNoSize(1)
    /\ FailedNoSize(2)
    /\ Succeeded(3)
    /\ Cardinality(Sends) = 3

(* -------------------------------- C5 ----------------------------------- *)

\* C5: an operation that exceeds the timeout is abandoned: neither the
\* download nor the conversion hands a result to the handler after more
\* than TIMEOUT_SECONDS; after the timeout the operation is not started
\* again, no conversion and no send follows, the exception handled is the
\* timeout, and the handler is left with the request failed and the
\* timed-out text reported.
C5_TimeoutAbandonsOperation ==
    /\ download_time <= TIMEOUT_SECONDS
    /\ conversion_time <= TIMEOUT_SECONDS
    /\ \A i \in DOMAIN log :
         log[i].res = "cancelled" =>
            /\ \A j \in DOMAIN log :
                 j > i => log[j].op \notin
                    {"download_to_drive", "convert_video_to_gif"} \cup SendOps
            /\ pc = "except" => exc.kind = "TimeoutError"
            /\ pc \in {"except", "raised", "returned"}
            /\ HandlerExited =>
                 /\ result = "Failed"
                 /\ T_TimedOut \in Reported
                 /\ Reported \subseteq {T_Processing, T_TimedOut, T_WentWrong}

(* -------------------------------- C6 ----------------------------------- *)

Min(a, b) == IF a < b THEN a ELSE b

\* C7: the GIF of a successful conversion starts at the start of the clip,
\* lasts min(native duration, MAX_DURATION_SECONDS) and is
\* min(native width, MAX_WIDTH_PX) wide; a clip within the width bound keeps
\* its size.
C7_OutputBounded ==
    gif # NoGif =>
        /\ gif.start = 0
        /\ gif.duration = Min(clip.duration, MAX_DURATION_SECONDS)
        /\ gif.width = Min(clip.width, MAX_WIDTH_PX)
        /\ clip.width <= MAX_WIDTH_PX => gif.height = clip.height

\* a 15 s, 640 px wide clip was converted to a 10 s, 480 px wide GIF
C7_Witness ==
    /\ pc = "check_gif"
    /\ clip.duration = 15
    /\ clip.width = 640
    /\ gif.duration = MAX_DURATION_SECONDS
    /\ gif.width = MAX_WIDTH_PX

(* -------------------------------- C8 ----------------------------------- *)

\* C8: an exception leaves a handler only from the two replies made before
\* any failure is reported (the processing message, the instruction), never
\* from the report of a failure.
C8_ReportFailureSwallowed ==
    pc = "raised" => log[Len(log)].arg \in {T_Processing, T_Instruction}

(* -------------------------------- C9 ----------------------------------- *)

\* C9: every text handed to the transport for the requester is one of the
\* fixed texts or the pipeline's own oversized-input message; the text of an
\* error raised inside a collaborator is never among them.
C9_OnlyGenericTextReported ==
    Reported \subseteq GenericTexts \cup {T_TooLargeIn}

(* -------------------------------- C10 ---------------------------------- *)

DeliveryPcs ==
    {"send_status", "method1", "method2", "method3", "all_failed",
     "send_except", "after_send"}

\* C10: for a GIF larger than MAX_GIF_SIZE_MB the delivery is never entered
\* and nothing is sent; the output-too-large text is reported (and is the
\* text of the status message when the handler is left, if the transport
\* took it) and the request has failed.
C10_OversizedOutputNotDelivered ==
    (gif # NoGif /\ gif.size > MAX_GIF_SIZE_MB * MB) =>
        /\ pc \notin DeliveryPcs
        /\ Sends = {}
        /\ T_GifCreated \notin Reported
        /\ pc # "check_gif" => T_OutTooLarge \in Reported
        /\ HandlerExited =>
             /\ result = "Failed"
             /\ T_OutTooLarge \in Shown => status = T_OutTooLarge

\* an oversized GIF was reported and the handler returned without a send
C10_Witness ==
    /\ pc = "returned"
    /\ gif # NoGif
    /\ gif.size > MAX_GIF_SIZE_MB * MB
    /\ status = T_OutTooLarge
    /\ result = "Failed"
    /\ Sends = {}

(* -------------------------------- C11 ---------------------------------- *)

\* all three delivery methods were attempted and none delivered
AllMethodsFailed ==
    \A k \in 1..3 : MethodCalls(k) # {} /\ ~Succeeded(k)
\* position in the log of the last call of a delivery method
LastMethodCall ==
    CHOOSE i \in MethodCalls(3) : \A j \in MethodCalls(3) : j <= i
CouldNotSendTexts == {T_CouldNotSendApi, T_CouldNotSendUnexpected}

\* C11: once all delivery methods have failed, every text the requester is
\* shown from then on is a could-not-send text; the could-not-convert text
\* is never shown.
C11_DeliveryFailureReportedAsSuch ==
    AllMethodsFailed =>
        \A i \in Calls({"edit_text", "reply_text"}) :
            (i > LastMethodCall /\ log[i].res = "ok") =>
                log[i].arg \in CouldNotSendTexts

(* -------------------------------- C12 ---------------------------------- *)

\* C12: a document whose content type is absent or not a video type gets
\* the instruction as its only reply from the handler: no processing
\* message, no temporary file or directory, no lookup, download, conversion
\* or send.
C12_NonVideoOnlyInstructed ==
    (pc # "idle" /\ handler = "handle_document" /\ mime # "video/mp4") =>
        /\ pc \in {"entry", "raised", "returned"}
        /\ \A i \in DOMAIN log :
             /\ log[i].op = "reply_text"
             /\ log[i].arg = (IF i = 1 THEN T_Instruction ELSE T_WentWrong)
        /\ Len(log) <= 2
        /\ (Len(log) = 2 => log[1].res = "raise")
        /\ status = ""
        /\ video_path = None
        /\ conv_dir = None
        /\ gif = NoGif

\* a document of type image/png was answered with the instruction
C12_Witness ==
    /\ pc = "returned"
    /\ handler = "handle_document"
    /\ mime = "image/png"
    /\ log = <<Call("reply_text", T_Instruction, "ok")>>

(* -------------------------------- C14 ---------------------------------- *)

\* The stage of the request, read off the handler's position.
Stage ==
    CASE pc = "entry" -> "Received"
      [] pc \in {"get_file", "check_size"} -> "Validating"
      [] pc \in {"mktemp", "download", "downloading", "download_stalled"} ->
            "Downloading"
      [] pc \in {"convert", "converting", "convert_stalled"} -> "Converting"
      [] pc = "check_gif" -> "SizeChecking"
      [] pc \in DeliveryPcs -> "Delivering"
      [] pc = "except" -> "Failed"
      [] pc \in {"raised", "returned"} -> result
      [] OTHER -> "none"
StageNo(s) ==
    CASE s = "Received" -> 1
      [] s = "Validating" -> 2
      [] s = "Downloading" -> 3
      [] s = "Converting" -> 4
      [] s = "SizeChecking" -> 5
      [] s = "Delivering" -> 6
      [] s = "Completed" -> 7
      [] s = "Failed" -> 8
      [] OTHER -> 0
\* what has succeeded when a stage is occupied
StageEntered ==
    /\ StageNo(Stage) >= 1
    /\ StageNo(Stage) \in 3..7 => declared <= MAX_VIDEO_SIZE_MB * MB
    /\ StageNo(Stage) \in 4..7 =>
         \E i \in Calls({"download_to_drive"}) : log[i].res = "ok"
    /\ StageNo(Stage) \in 5..7 =>
         \E i \in Calls({"convert_video_to_gif"}) : log[i].res = "ok"
    /\ StageNo(Stage) \in 6..7 => gif # NoGif /\ gif.size <= MAX_GIF_SIZE_MB * MB
    /\ Stage = "Completed" => \E k \in 1..3 : Succeeded(k)
\* a step of one request stays in its stage, enters the next one, or fails
StageStep ==
    (InPipeline /\ InPipeline' /\ served' = served) =>
        \/ Stage' = Stage
        \/ StageNo(Stage) \in 1..6 /\ StageNo(Stage') = StageNo(Stage) + 1
        \/ StageNo(Stage) \in 1..6 /\ Stage' = "Failed"

\* C14: a request passes its stages in the order Received, Validating,
\* Downloading, Converting, SizeChecking, Delivering and ends in exactly one
\* of Completed and Failed; a stage is occupied only when the previous ones
\* succeeded, a stage left is never entered again, and Completed follows a
\* successful delivery method.
C14_StagesInOrder ==
    /\ [](InPipeline => StageEntered)
    /\ [][StageStep]_vars

\* a request that went through all the stages and was delivered by the
\* second method
C14_Witness ==
    /\ InPipeline
    /\ Stage = "Completed"
    /\ ~Succeeded(1)
    /\ Succeeded(2)

(* -------------------------------- C15 ---------------------------------- *)

\* the conversion of this request returned its two paths
ConversionReturned ==
    \E i \in Calls({"convert_video_to_gif"}) : log[i].res = "ok"

\* C15: the conversion returns successfully only with an output file that
\* exists and is not empty; with an empty output the request never gets as
\* far as the size check or the delivery.
C15_EmptyOutputFails ==
    /\ ConversionReturned => gif # NoGif /\ gif.size > 0
    /\ (gif # NoGif /\ gif.size = 0) =>
          /\ pc \notin {"check_gif"} \cup DeliveryPcs
          /\ Sends = {}

(* -------------------------------- C16 ---------------------------------- *)

\* C16: convert_video_to_gif leaves no clip open, whether it returns or
\* raises.  (Its body runs in one step, so no clip is open in any state.)
C16_ClipsClosed == open_clips = {}

(* ---------------- repeated calls of safe_cleanup (C17) ----------------- *)

\* the state of one handler: every variable but the filesystem and the
\* variables of the concurrent and the cleanup runs
localVars ==
    <<pc, served, handler, mime, declared, actual, now, deadline, start_time,
      download_time, conversion_time, video_path, temp_dir, gif_path,
      conv_dir, clip, gif, status, deleted, log, exc, success, result,
      delFailed, diskFaults, open_clips>>

\* calls of safe_cleanup in a cleanup run
MaxCleanupCalls == 3

\* What a scratch directory holds as the conversion and the delivery go on:
\* nothing, output.mp4, then output.gif, then animation.gif
\* (src/bot.py:129-130, 161, 173, 237-238).
DirContents(dir) ==
    {{},
     {Join(dir, "output.mp4")},
     {Join(dir, "output.mp4"), Join(dir, "output.gif")},
     {Join(dir, "output.mp4"), Join(dir, "output.gif"),
      Join(dir, "animation.gif")}}

\* The filesystems safe_cleanup is called on: the input file is there or
\* not, the scratch directory is there, with its contents, or not.
Workspaces ==
    {f \cup d : f \in {{}, {TmpFile(1)}},
                d \in {{}} \cup {{TmpDir(1)} \cup c : c \in DirContents(TmpDir(1))}}

\* A cleanup run starts with the locals video_path and temp_dir of a
\* handler set or None (src/bot.py:285-286) over one of the filesystems, and
\* with deletions that may fail.
InitCleanup ==
    /\ pc = "idle"
    /\ served = 0
    /\ handler = "none"
    /\ mime = "None"
    /\ declared = 0
    /\ actual = 0
    /\ now = 0
    /\ deadline = -1
    /\ start_time = 0
    /\ download_time = -1
    /\ conversion_time = -1
    /\ fs \in Workspaces
    /\ video_path \in {None, TmpFile(1)}
    /\ temp_dir \in {None, TmpDir(1)}
    /\ gif_path = None
    /\ conv_dir = None
    /\ clip = NoClip
    /\ gif = NoGif
    /\ status = ""
    /\ deleted = FALSE
    /\ log = <<>>
    /\ exc = NoExc
    /\ success = FALSE
    /\ result = "none"
    /\ delFailed = FALSE
    /\ diskFaults = TRUE
    /\ open_clips = {}
    /\ reqs = [r \in Requests |-> IdleRequest]
    /\ cl = NoCleanup

\* safe_cleanup([video_path, temp_dir]) as the handler calls it first on
\* the oversized-output path (src/bot.py:325, 414)
CleanupFirst ==
    /\ cl.calls = 0
    /\ \E failing \in SUBSET Existing(fs, EarlyCleanupPaths) :
        /\ fs' = safe_cleanup(fs, EarlyCleanupPaths, failing)
        /\ cl' = [calls |-> 1,
                  after |-> safe_cleanup(fs, EarlyCleanupPaths, failing),
                  failed |-> failing,
                  exc |-> safe_cleanup_exc(fs, EarlyCleanupPaths, failing)]
    /\ UNCHANGED <<localVars, reqs>>

\* safe_cleanup([video_path, temp_dir]) called again on the same paths, as
\* the finally does (src/bot.py:361, 450)
CleanupAgain ==
    /\ cl.calls \in 1..(MaxCleanupCalls - 1)
    /\ \E failing \in SUBSET Existing(fs, FinallyPaths) :
        /\ fs' = safe_cleanup(fs, FinallyPaths, failing)
        /\ cl' = [cl EXCEPT !.calls = @ + 1,
                            !.exc = IF @ # NoExc THEN @
                                    ELSE safe_cleanup_exc(fs, FinallyPaths,
                                                          failing)]
    /\ UNCHANGED <<localVars, reqs>>

NextCleanup ==
    \/ CleanupFirst
    \/ CleanupAgain

SpecCleanup == InitCleanup /\ [][NextCleanup]_vars

\* the paths a call removes together with p
RemovedWith(fsys, p) == {q \in fsys : q = p \/ (isdir(fsys, p) /\ Under(q, p))}

\* C17 as stated: a second call of safe_cleanup on the same paths leaves
\* the filesystem as it was after the first call and raises nothing, also
\* when a deletion fails.
C17_CleanupIdempotent ==
    cl.calls >= 2 => (fs = cl.after /\ cl.exc = NoExc)

\* C17: no call of safe_cleanup raises; a later call on the same paths
\* creates nothing and removes only what a failed deletion of the first
\* call had left, so it changes nothing when no deletion of the first call
\* failed.
C17_CleanupRepeatable ==
    cl.calls >= 1 =>
        /\ cl.exc = NoExc
        /\ fs \subseteq cl.after
        /\ \A q \in cl.after \ fs :
             \E p \in cl.failed : q \in RemovedWith(cl.after, p)
        /\ cl.failed = {} => fs = cl.after

\* the first call removed the input file and failed on the directory, the
\* second call removed the directory
C17_Witness ==
    /\ cl.calls = 2
    /\ cl.exc = NoExc
    /\ cl.failed = {TmpDir(1)}
    /\ Join(TmpDir(1), "output.gif") \in cl.after
    /\ TmpFile(1) \notin cl.after
    /\ fs = {}

(* ---------------- handlers running side by side (C13) ------------------ *)

\* The application runs one handler coroutine for each update, and the
\* coroutines interleave at their awaits.  A concurrent run follows, for
\* each handler, the steps between awaits that touch the filesystem; the
\* filesystem is the only state the handlers share.

InFlight(r) == reqs[r].pc \notin {"idle", "done"}

\* The request fails before its temporary file exists: the processing
\* reply, get_file or the size check raise (src/bot.py:283-296).
CReject(r) ==
    /\ reqs[r].pc = "idle"
    /\ reqs' = [reqs EXCEPT ![r].pc = "finally"]
    /\ UNCHANGED <<fs, localVars, cl>>

\* NamedTemporaryFile(delete=False, suffix='.mp4')  (src/bot.py:299-301)
CMkTemp(r) ==
    /\ reqs[r].pc = "idle"
    /\ LET path == TmpFile(FreshId(fs, "tmpfile"))
       IN  /\ fs' = fs \cup {path}
           /\ reqs' = [reqs EXCEPT ![r].pc = "download",
                                   ![r].video_path = path]
    /\ UNCHANGED <<localVars, cl>>

\* the download is awaited and returns, raises or is timed out
\* (src/bot.py:304-307)
CDownload(r) ==
    /\ reqs[r].pc = "download"
    /\ \E ok \in BOOLEAN :
         reqs' = [reqs EXCEPT ![r].pc = IF ok THEN "convert" ELSE "finally"]
    /\ UNCHANGED <<fs, localVars, cl>>

\* convert_video_to_gif runs from its first line to its return or raise
\* without an await (src/bot.py:126-199)
CConvert(r) ==
    /\ reqs[r].pc = "convert"
    /\ \E fp \in {"none", "write_videofile", "write_gif"} :
        LET body == convert_video_to_gif(fs, 5 * MB, MAX_DURATION_SECONDS,
                                         <<MAX_WIDTH_PX, 360>>, 2 * MB, fp,
                                         TransportError, {})
        IN  /\ fs' = body.fs
            /\ reqs' = IF body.res = NoExc
                       THEN [reqs EXCEPT ![r].pc = "deliver",
                                         ![r].temp_dir = body.dir,
                                         ![r].gif_path = body.gif_path]
                       ELSE [reqs EXCEPT ![r].pc = "finally"]
    /\ UNCHANGED <<localVars, cl>>

\* the first send is awaited (src/bot.py:208-230): it succeeds, or it fails
\* and method 2 follows
CDeliver(r) ==
    /\ reqs[r].pc = "deliver"
    /\ \E ok \in BOOLEAN :
         reqs' = [reqs EXCEPT ![r].pc = IF ok THEN "finally" ELSE "copy"]
    /\ UNCHANGED <<fs, localVars, cl>>

\* shutil.copy2(gif_path, new_gif_path) of method 2 (src/bot.py:237-238),
\* and the sends that follow
CCopy(r) ==
    /\ reqs[r].pc = "copy"
    /\ fs' = fs \cup {Join(Dirname(reqs[r].gif_path), "animation.gif")}
    /\ reqs' = [reqs EXCEPT ![r].pc = "finally"]
    /\ UNCHANGED <<localVars, cl>>

\* finally: safe_cleanup([video_path, temp_dir])  (src/bot.py:359-361)
CFinally(r) ==
    /\ reqs[r].pc = "finally"
    /\ fs' = safe_cleanup(fs, <<reqs[r].video_path, reqs[r].temp_dir>>, {})
    /\ reqs' = [reqs EXCEPT ![r].pc = "done"]
    /\ UNCHANGED <<localVars, cl>>

NextConc ==
    \/ \E r \in Requests : CReject(r)
    \/ \E r \in Requests : CMkTemp(r)
    \/ \E r \in Requests : CDownload(r)
    \/ \E r \in Requests : CConvert(r)
    \/ \E r \in Requests : CDeliver(r)
    \/ \E r \in Requests : CCopy(r)
    \/ \E r \in Requests : CFinally(r)

SpecConc == Init /\ [][NextConc]_vars

\* the paths of fsys that belong to request r: its input file, its scratch
\* directory and what is in it
Owned(r, fsys) ==
    {q \in fsys : \/ q = reqs[r].video_path
                  \/ reqs[r].temp_dir # None /\ Under(q, reqs[r].temp_dir)}
\* no two requests in flight hold the same input file or directory
WorkspacesDisjoint ==
    \A r, s \in Requests :
        (r # s /\ InFlight(r) /\ InFlight(s)) =>
            /\ reqs[r].video_path # None =>
                 reqs[r].video_path # reqs[s].video_path
            /\ reqs[r].temp_dir # None =>
                 reqs[r].temp_dir # reqs[s].temp_dir
\* what a request in flight has created is there
WorkspaceIntact ==
    \A r \in Requests :
        InFlight(r) =>
            /\ reqs[r].video_path # None => reqs[r].video_path \in fs
            /\ reqs[r].temp_dir # None =>
                 {reqs[r].temp_dir, reqs[r].gif_path} \subseteq fs
\* a step of another request removes nothing of a request in flight
NoForeignRemoval ==
    \A s \in Requests :
        (InFlight(s) /\ reqs'[s] = reqs[s]) => Owned(s, fs) \subseteq fs'

\* C13: with several requests in flight and their steps interleaved in any
\* order, no input file and no scratch directory is held by two of them,
\* and the cleanup of one removes nothing that belongs to another one
\* still in flight.
C13_WorkspacesNotShared ==
    /\ [](WorkspacesDisjoint /\ WorkspaceIntact)
    /\ [][NoForeignRemoval]_vars

\* both requests held a workspace at the same time; the first has cleaned
\* up and the second still has all its files
C13_Witness ==
    /\ reqs[1].pc = "done"
    /\ reqs[1].video_path = TmpFile(1)
    /\ reqs[1].temp_dir = TmpDir(1)
    /\ reqs[2].pc = "finally"
    /\ reqs[2].video_path = TmpFile(2)
    /\ reqs[2].temp_dir = TmpDir(2)
    /\ fs = {TmpFile(2), TmpDir(2), Join(TmpDir(2), "output.mp4"),
             Join(TmpDir(2), "output.gif"), Join(TmpDir(2), "animation.gif")}

(* -------------------------------- C18 ---------------------------------- *)

\* the texts that tell the requester of a failure
FailureTexts ==
    {T_TooLargeIn, T_Internal, T_TimedOut, T_CouldNotConvert, T_OutTooLarge,
     T_CouldNotSendApi, T_CouldNotSendUnexpected}
\* the last edit of the status message was accepted by the transport
LastEditAccepted ==
    /\ Calls({"edit_text"}) # {}
    /\ \E i \in Calls({"edit_text"}) :
         /\ \A j \in Calls({"edit_text"}) : j <= i
         /\ log[i].res = "ok"

\* C18: the deletion of the status message is attempted exactly when the
\* delivery succeeded, once, and the request is Completed whether or not
\* the deletion raised; a request that failed never deletes the message,
\* which carries the failure text whenever the transport accepted the edit.
C18_StatusDeletedOnSuccessOnly ==
    InPipeline =>
        /\ Calls({"delete"}) # {} =>
             (result = "Completed" /\ \E k \in 1..3 : Succeeded(k))
        /\ deleted => Calls({"delete"}) # {}
        /\ (HandlerExited /\ result = "Completed") =>
             Cardinality(Calls({"delete"})) = 1
        /\ (HandlerExited /\ result = "Failed") =>
             /\ ~deleted
             /\ Calls({"delete"}) = {}
             /\ LastEditAccepted => status \in FailureTexts

\* a delivered request whose status message could not be deleted
C18_Witness ==
    /\ pc = "returned"
    /\ result = "Completed"
    /\ ~deleted
    /\ \E i \in Calls({"delete"}) : log[i].res = "raise"

(* -------------------------------- C19 ---------------------------------- *)

\* the number of the method a call of the log belongs to (0: none)
MethodOf(i) ==
    IF \E k \in 1..3 : i \in MethodCalls(k)
    THEN CHOOSE k \in 1..3 : i \in MethodCalls(k)
    ELSE 0
DeliveredSends == {i \in Sends : log[i].res = "ok"}

\* C19: the sends of a request are made one after the other in the order
\* of the methods, a method is started only when the one before it was
\* attempted, has finished and has failed, nothing of any method is called
\* after a send succeeded, and at most one send succeeds.
C19_SendsSequential ==
    /\ \A i, j \in Sends : i < j => MethodOf(i) < MethodOf(j)
    /\ \A k \in 2..3 :
         MethodCalls(k) # {} =>
            /\ MethodCalls(k - 1) # {}
            /\ ~Succeeded(k - 1)
            /\ \A i \in MethodCalls(k - 1), j \in MethodCalls(k) : i < j
    /\ \A i \in DeliveredSends, j \in DOMAIN log : j > i => MethodOf(j) = 0
    /\ Cardinality(DeliveredSends) <= 1

\* the first send was refused for its size, the second delivered the GIF
C19_Witness ==
    /\ pc = "returned"
    /\ Cardinality(Sends) = 2
    /\ \E i \in SendsOf("method1") : log[i].res = "size_limit"
    /\ Succeeded(2)

(* -------------------------------- C20 ---------------------------------- *)

\* the declared size passed the handler's check, the downloaded file is
\* larger than the maximum, and the conversion has been run on it
ActualOversize ==
    /\ InPipeline
    /\ declared <= MAX_VIDEO_SIZE_MB * MB
    /\ actual > MAX_VIDEO_SIZE_MB * MB
    /\ \E i \in Calls({"convert_video_to_gif"}) : log[i].res # "started"

\* C20 as stated: a downloaded file larger than the maximum, whose declared
\* size was not, is reported with the generic apology and not with the
\* oversized-input text.
C20_ActualOversizeIsUnexpected ==
    (ActualOversize /\ HandlerExited) =>
        /\ T_CouldNotConvert \in Reported
        /\ T_TooLargeIn \notin Reported

\* C20: a downloaded file larger than the maximum, whose declared size was
\* not, fails the conversion with the validation error: the request ends
\* Failed with nothing sent, the oversized-input text is reported (and is
\* the text of the status message when the transport accepts the edit) and
\* the generic apology is not.
C20_ActualOversizeIsValidation ==
    ActualOversize =>
        /\ ~ConversionReturned
        /\ Sends = {}
        /\ T_CouldNotConvert \notin Reported
        /\ pc = "except" => exc = Exc("ValueError", T_TooLargeIn)
        /\ HandlerExited =>
             /\ result = "Failed"
             /\ T_TooLargeIn \in Reported
             /\ LastEditAccepted => status = T_TooLargeIn

\* a 25 MB file declared as smaller was rejected by the conversion and the
\* requester shown the oversized-input text
C20_Witness ==
    /\ ActualOversize
    /\ pc = "returned"
    /\ status = T_TooLargeIn
    /\ result = "Failed"

(* -------------------------------- C21 ---------------------------------- *)

\* C21: handle_video and handle_document (for a video type) make the same
\* calls in the same order for the same declared size: with a size within
\* the limit the file lookup is the call after the processing reply in
\* both, and with an oversized input neither looks the file up and both
\* report the oversized-input text, which the status message carries when
\* the transport accepts the edit.
C21_HandlersEquivalent ==
    InPipeline =>
        /\ (~TooLarge(declared) /\ Len(log) >= 2 /\ log[1].res = "ok") =>
              log[2].op = "get_file"
        /\ TooLarge(declared) =>
              /\ Calls({"get_file"}) = {}
              /\ T_CouldNotConvert \notin Reported
              /\ (HandlerExited /\ log[1].res = "ok") =>
                    T_TooLargeIn \in Reported
              /\ (HandlerExited /\ LastEditAccepted) => status = T_TooLargeIn

(* -------------------------------- C22 ---------------------------------- *)

\* The event loop keeps running: a step of the handler that can be taken is
\* taken (every transport call returns or raises, the timer fires when the
\* event loop can run it).
SpecLive == Spec /\ WF_vars(Next)

\* C22: every request that entered the pipeline ends Completed or Failed
\* with its handler left; it stays forever in no stage.
C22_EveryRequestEnds ==
    [](InPipeline => <>(pc = "returned" /\ result \in {"Completed", "Failed"}))

=============================================================================
